---- MODULE Spec2Model ----
(***************************************************************************)
(* Abaqus automation scripts: the CAE macros of abaqusMacros.py (model and *)
(* job repositories of the mdb, session repositories) and the external     *)
(* parametric pipeline of abaqus_outside.py (file writes and the blocking  *)
(* Abaqus subprocess), driven by examples/main_script.py.                  *)
(***************************************************************************)
EXTENDS Integers, Sequences, FiniteSets, TLC

VARIABLES
    \* ---- Abaqus CAE: mdb repositories and the macro being executed ----
    models,        \* mdb.models: the keys (names) of the models
    jobs,          \* mdb.jobs: name -> [model, numCpus, numDomains, status]
    mpc,           \* position of the macro interpreter
    macro,         \* macro being executed / executed last
    outcome,       \* how the last macro ended: "returned" or "raised"
    pre,           \* mdb.models and mdb.jobs when the macro was called
    created,       \* job name -> number of mdb.Job() calls in this macro call
    queue,         \* list the running macro iterates over (items() snapshot)
    idx,           \* position of the loop in queue
    submitted,     \* job name -> number of job.submit() calls in this macro call
    visited        \* job name -> status read when the loop visited the job

mvars == <<models, jobs, mpc, macro, outcome, pre, created, queue, idx,
           submitted, visited>>

VARIABLES
    \* ---- Abaqus CAE: session repositories ----
    xyDataObjects, \* session.xyDataObjects: names of the xyData objects
    xyPlots,       \* session.xyPlots: names of the xyPlot objects
    odbs,          \* session.odbs: names of the open odbs
    smacro,        \* session macro executed, "none" before
    spre           \* the three repositories when the macro was called

svars == <<xyDataObjects, xyPlots, odbs, smacro, spre>>

VARIABLES
    \* ---- parametric_check_odb_files(root_path) ----
    root_path,     \* type of the argument: "str" or "Path"
    logs,          \* the .log files of the folder: number -> lines of the file
    cpc,           \* "called" or "done"
    status_out     \* [raised, value]: the exception raised or the value returned

cvars == <<root_path, logs, cpc, status_out>>

VARIABLES
    \* ---- abaqus_outside.py: the Python process and its Abaqus children ----
    ppc,           \* position of the Python interpreter
    stack,         \* functions being executed, outermost first
    arg,           \* arguments of the outermost call
    files,         \* files on disk
    psf,           \* last line of the psf written last: "none", "generate",
                   \* "execute"
    psf_text,      \* folder -> text of <study>.psf in it, <<>> when none
    csv,           \* column names of the study csv, <<>> when there is none
    procs,         \* child processes started: pid -> [cmd, call, state]
    steps,         \* what the outermost call has done so far, in order
    launched,      \* function on the stack -> Popen calls it made (depth-indexed)
    ended,         \* calls that ended: [fn, how, call, launched], oldest first
    calls          \* number of outermost calls made so far

pvars == <<ppc, stack, arg, files, psf, psf_text, csv, procs, steps, launched, ended,
           calls>>

VARIABLES
    \* ---- examples/main_script.py ----
    CONFIG_PROJECTS, \* the main cfg: study_names and one list of flags per stage
    script,          \* "start" or "ended"
    script_raised,   \* exception that ended the script, "none" otherwise
    stages_run       \* [study, stage] of the stage calls made, in order

xvars == <<CONFIG_PROJECTS, script, script_raised, stages_run>>

vars == <<mvars, svars, cvars, pvars, xvars>>

nonMacro == <<svars, cvars, pvars, xvars>>
nonSession == <<mvars, cvars, pvars, xvars>>
nonCheck == <<mvars, svars, pvars, xvars>>
nonPipeline == <<mvars, svars, cvars, xvars>>
nonMain == <<mvars, svars, cvars, pvars>>

-----------------------------------------------------------------------------
(* Bounds of the model *)

MaxModels == 2
MaxJobs == 2

(* abaqusMacros.cfg, [MACROS] CPUS_NUMBER *)
CPUS_NUMBER == 4

-----------------------------------------------------------------------------
(* Names are sequences of characters, so that str.replace can be computed. *)

ModelKeys == { <<"a", " ", "b">>, <<"a", "_", "b">>, <<"c">> }

\* str.replace(' ', '_')
Replace(s) == [i \in DOMAIN s |-> IF s[i] = " " THEN "_" ELSE s[i]]

HasBlank(s) == \E i \in DOMAIN s : s[i] = " "

\* Names a job of the database may have before a macro runs.
JobKeys == { Replace(k) : k \in ModelKeys } \cup { <<"j">> }

\* The orders in which a repository may hand out its items.
Orders(S) == { q \in [1..Cardinality(S) -> S] :
                 \A i, j \in 1..Cardinality(S) : i # j => q[i] # q[j] }

Put(f, k, v) == [x \in DOMAIN f \cup {k} |-> IF x = k THEN v ELSE f[x]]

Zero(S) == [x \in S |-> 0]

Count(f, k) == IF k \in DOMAIN f THEN f[k] ELSE 0

-----------------------------------------------------------------------------
(* mdb.Job(name=..., model=..., numCpus=CPUS_NUMBER, numDomains=CPUS_NUMBER) *)

NewJob(model) ==
    [model |-> model, numCpus |-> CPUS_NUMBER, numDomains |-> CPUS_NUMBER,
     status |-> "NONE"]

\* The constructor puts the job in the repository under `name`, replacing a
\* job of that name.
MdbJob(st, name, model) ==
    [jobs |-> Put(st.jobs, name, NewJob(model)),
     created |-> Put(st.created, name, Count(st.created, name) + 1)]

\* Body of jobs_create_4all_models_with_overwrite: the loop over mdb.models.
RECURSIVE OverwriteLoop(_, _, _)
OverwriteLoop(order, i, st) ==
    IF i > Len(order) THEN st
    ELSE OverwriteLoop(order, i + 1, MdbJob(st, Replace(order[i]), order[i]))

\* Body of jobs_create_4all_models: the loop over mdb.models.
RECURSIVE CreateLoop(_, _, _)
CreateLoop(order, i, st) ==
    IF i > Len(order) THEN st
    ELSE IF Replace(order[i]) \notin DOMAIN st.jobs
         THEN CreateLoop(order, i + 1, OverwriteLoop(order, 1, st))
         ELSE CreateLoop(order, i + 1, st)

-----------------------------------------------------------------------------
(* mdb.models.changeKey(fromName, toName) *)

\* The repository after the call. Renaming a key to itself changes nothing.
\* What Abaqus does when toName is the key of another model is not fixed by
\* these scripts: it either refuses (the call raises) or the renamed model
\* takes the place of the other one.
ChangeKey(ms, fromName, toName, onClash) ==
    IF fromName = toName THEN [models |-> ms, raised |-> FALSE]
    ELSE IF toName \in ms
         THEN IF onClash = "raise"
              THEN [models |-> ms, raised |-> TRUE]
              ELSE [models |-> ms \ {fromName}, raised |-> FALSE]
         ELSE [models |-> (ms \ {fromName}) \cup {toName}, raised |-> FALSE]

\* Body of models_replace_blank_spaces: the loop over mdb.models.keys().
RECURSIVE RenameLoop(_, _, _, _)
RenameLoop(order, i, ms, onClash) ==
    IF i > Len(order) THEN [models |-> ms, raised |-> FALSE]
    ELSE LET r == ChangeKey(ms, order[i], Replace(order[i]), onClash)
         IN  IF r.raised THEN r
             ELSE RenameLoop(order, i + 1, r.models, onClash)

-----------------------------------------------------------------------------
(* State of the CAE database when the macros are loaded *)

\* Jobs of the database: no analysis is running when a macro is called.
OldJobs(ms) ==
    [model : ms, numCpus : {1}, numDomains : {1},
     status : {"NONE", "ABORTED", "COMPLETED"}]

MacroInit ==
    /\ models \in { ms \in SUBSET ModelKeys :
                      Cardinality(ms) \in 1..MaxModels }
    /\ \E S \in SUBSET JobKeys :
          /\ Cardinality(S) <= MaxJobs
          /\ jobs \in [S -> OldJobs(models)]
    /\ mpc = "idle"
    /\ macro = "none"
    /\ outcome = "none"
    /\ pre = [models |-> models, jobs |-> jobs]
    /\ created = Zero({})
    /\ queue = <<>>
    /\ idx = 1
    /\ submitted = Zero({})
    /\ visited = Zero({})

\* A macro is picked from the Macro Manager once the database is loaded.
CanCall == mpc = "idle" /\ macro = "none"

\* Bookkeeping common to every macro call.
Enter(name) ==
    /\ macro' = name
    /\ pre' = [models |-> models, jobs |-> jobs]

-----------------------------------------------------------------------------
(* Macros that run to completion inside the CAE interpreter *)

jobs_create_4all_models ==
    /\ CanCall
    /\ Enter("jobs_create_4all_models")
    /\ \E order \in Orders(models) :
          LET st == CreateLoop(order, 1, [jobs |-> jobs, created |-> Zero({})])
          IN  /\ jobs' = st.jobs
              /\ created' = st.created
    /\ outcome' = "returned"
    /\ submitted' = Zero({})
    /\ visited' = Zero({})
    /\ UNCHANGED nonMacro
    /\ UNCHANGED <<models, mpc, queue, idx>>

jobs_create_4all_models_with_overwrite ==
    /\ CanCall
    /\ Enter("jobs_create_4all_models_with_overwrite")
    /\ \E order \in Orders(models) :
          LET st == OverwriteLoop(order, 1,
                                  [jobs |-> jobs, created |-> Zero({})])
          IN  /\ jobs' = st.jobs
              /\ created' = st.created
    /\ outcome' = "returned"
    /\ submitted' = Zero({})
    /\ visited' = Zero({})
    /\ UNCHANGED nonMacro
    /\ UNCHANGED <<models, mpc, queue, idx>>

models_replace_blank_spaces ==
    /\ CanCall
    /\ Enter("models_replace_blank_spaces")
    /\ \E order \in Orders(models), onClash \in {"raise", "overwrite"} :
          LET r == RenameLoop(order, 1, models, onClash)
          IN  /\ models' = r.models
              /\ outcome' = IF r.raised THEN "raised" ELSE "returned"
    /\ created' = Zero({})
    /\ submitted' = Zero({})
    /\ visited' = Zero({})
    /\ UNCHANGED nonMacro
    /\ UNCHANGED <<jobs, mpc, queue, idx>>

-----------------------------------------------------------------------------
(* Macros that submit jobs: the solver runs beside the interpreter *)

Running == { j \in DOMAIN jobs : jobs[j].status = "RUNNING" }

\* for job_key, job in mdb.jobs.items(): the loop starts on a snapshot.
StartLoop(name) ==
    /\ CanCall
    /\ Enter(name)
    /\ \E order \in Orders(DOMAIN jobs) : queue' = order
    /\ idx' = 1
    /\ mpc' = "loop"
    /\ outcome' = "none"
    /\ created' = Zero({})
    /\ submitted' = Zero(DOMAIN jobs)
    /\ visited' = [j \in DOMAIN jobs |-> "unvisited"]
    /\ UNCHANGED nonMacro
    /\ UNCHANGED <<models, jobs>>

jobs_run_all ==
    /\ StartLoop("jobs_run_all")

jobs_run_not_completed ==
    /\ StartLoop("jobs_run_not_completed")

SubmitsAlways(name, status) == TRUE

\* The test that guards job.submit() in the loop body.
SubmitsOnVisit(name, status) ==
    IF name = "jobs_run_not_completed" THEN status # "COMPLETED" ELSE TRUE

WaitReturnsAtOnce(j) == TRUE

\* job.waitForCompletion() returns once the job is no longer running.
WaitReturns(j) == jobs[j].status # "RUNNING"

\* Loop head: the next job is visited; job.submit() when the test passes.
Visit ==
    /\ mpc = "loop"
    /\ idx <= Len(queue)
    /\ LET j == queue[idx]
       IN  /\ visited' = [visited EXCEPT ![j] = jobs[j].status]
           /\ IF SubmitsOnVisit(macro, jobs[j].status)
              THEN /\ jobs' = [jobs EXCEPT ![j].status = "RUNNING"]
                   /\ submitted' = [submitted EXCEPT ![j] = @ + 1]
                   /\ mpc' = "wait"
                   /\ idx' = idx
              ELSE /\ idx' = idx + 1
                   /\ UNCHANGED <<jobs, submitted, mpc>>
    /\ UNCHANGED nonMacro
    /\ UNCHANGED <<models, macro, outcome, pre, created, queue>>

\* The solver ends a running job.
JobEnds ==
    /\ \E j \in Running, s \in {"COMPLETED", "ABORTED"} :
          jobs' = [jobs EXCEPT ![j].status = s]
    /\ UNCHANGED nonMacro
    /\ UNCHANGED <<models, mpc, macro, outcome, pre, created, queue, idx,
                   submitted, visited>>

\* job.waitForCompletion() returns; jobs_count += 1; next iteration.
Wait ==
    /\ mpc = "wait"
    /\ WaitReturns(queue[idx])
    /\ idx' = idx + 1
    /\ mpc' = "loop"
    /\ UNCHANGED nonMacro
    /\ UNCHANGED <<models, jobs, macro, outcome, pre, created, queue,
                   submitted, visited>>

\* job.waitForCompletion() on an analysis that aborted: Abaqus may report
\* the abort as an exception out of the call, which the macro does not
\* catch, instead of returning.
WaitRaises ==
    /\ mpc = "wait"
    /\ WaitReturns(queue[idx])
    /\ jobs[queue[idx]].status = "ABORTED"
    /\ mpc' = "idle"
    /\ outcome' = "raised"
    /\ UNCHANGED nonMacro
    /\ UNCHANGED <<models, jobs, macro, pre, created, queue, idx,
                   submitted, visited>>

\* The loop is exhausted: return.
LoopReturn ==
    /\ mpc = "loop"
    /\ idx > Len(queue)
    /\ mpc' = "idle"
    /\ outcome' = "returned"
    /\ UNCHANGED nonMacro
    /\ UNCHANGED <<models, jobs, macro, pre, created, queue, idx,
                   submitted, visited>>

MacroNext ==
    \/ jobs_create_4all_models
    \/ jobs_create_4all_models_with_overwrite
    \/ models_replace_blank_spaces
    \/ jobs_run_all
    \/ jobs_run_not_completed
    \/ Visit
    \/ JobEnds
    \/ Wait
    \/ WaitRaises
    \/ LoopReturn


-----------------------------------------------------------------------------
(* Session macros of abaqusMacros.py *)

XYDataKeys == { "XYData-1", "XYData-2" }
XYPlotKeys == { "XYPlot-1", "XYPlot-2" }
OdbKeys == { "Job-1.odb", "Job-2.odb" }

\* The loop `for key, obj in repository.items()` binds two local names.
LoopFrame(keyName, objName, key) == (keyName :> key) @@ (objName :> key)

\* `del name` unbinds a local name of the frame; the object it was bound
\* to stays in every container that holds it.
Del(st, name) ==
    [repo |-> st.repo,
     frame |-> [n \in DOMAIN st.frame \ {name} |-> st.frame[n]]]

\* odb.close() removes the odb from session.odbs.
OdbClose(st, name) ==
    [repo |-> st.repo \ {st.frame[name]}, frame |-> st.frame]

\* Body of xydata_clean_all_xydata: the loop over session.xyDataObjects.
RECURSIVE XyDataLoop(_, _, _)
XyDataLoop(order, i, repo) ==
    IF i > Len(order) THEN repo
    ELSE XyDataLoop(order, i + 1,
            Del([repo |-> repo,
                 frame |-> LoopFrame("xydata_key", "xydata", order[i])],
                "xydata").repo)

\* Body of xyplots_clean_all_xyplots: the loop over session.xyPlots.
RECURSIVE XyPlotLoop(_, _, _)
XyPlotLoop(order, i, repo) ==
    IF i > Len(order) THEN repo
    ELSE XyPlotLoop(order, i + 1,
            Del([repo |-> repo,
                 frame |-> LoopFrame("xyplot_key", "xyplot", order[i])],
                "xyplot").repo)

\* Body of odbs_close_all_odbs: the loop over session.odbs.
RECURSIVE OdbLoop(_, _, _)
OdbLoop(order, i, repo) ==
    IF i > Len(order) THEN repo
    ELSE OdbLoop(order, i + 1,
            OdbClose([repo |-> repo,
                      frame |-> LoopFrame("odb_key", "odb", order[i])],
                     "odb").repo)

SessionInit ==
    /\ xyDataObjects \in SUBSET XYDataKeys
    /\ xyPlots \in SUBSET XYPlotKeys
    /\ odbs \in SUBSET OdbKeys
    /\ smacro = "none"
    /\ spre = [xyDataObjects |-> xyDataObjects, xyPlots |-> xyPlots,
               odbs |-> odbs]

SessionEnter(name) ==
    /\ smacro = "none"
    /\ smacro' = name
    /\ spre' = [xyDataObjects |-> xyDataObjects, xyPlots |-> xyPlots,
                odbs |-> odbs]

xydata_clean_all_xydata ==
    /\ SessionEnter("xydata_clean_all_xydata")
    /\ \E order \in Orders(xyDataObjects) :
          xyDataObjects' = XyDataLoop(order, 1, xyDataObjects)
    /\ UNCHANGED <<xyPlots, odbs>>
    /\ UNCHANGED nonSession

xyplots_clean_all_xyplots ==
    /\ SessionEnter("xyplots_clean_all_xyplots")
    /\ \E order \in Orders(xyPlots) :
          xyPlots' = XyPlotLoop(order, 1, xyPlots)
    /\ UNCHANGED <<xyDataObjects, odbs>>
    /\ UNCHANGED nonSession

odbs_close_all_odbs ==
    /\ SessionEnter("odbs_close_all_odbs")
    /\ \E order \in Orders(odbs) :
          odbs' = OdbLoop(order, 1, odbs)
    /\ UNCHANGED <<xyDataObjects, xyPlots>>
    /\ UNCHANGED nonSession

SessionNext ==
    \/ xydata_clean_all_xydata
    \/ xyplots_clean_all_xyplots
    \/ odbs_close_all_odbs

-----------------------------------------------------------------------------
(* parametric_check_odb_files of abaqus_outside.py *)

MaxLogNo == 3

\* A line is a sequence of tokens: words, " " and "\n".
CompletedLine == <<"Abaqus", " ", "JOB", " ", "model", " ", "COMPLETED", "\n">>
CompletedLineNoEol == <<"Abaqus", " ", "JOB", " ", "model", " ", "COMPLETED">>
AbortedLine == <<"Abaqus", " ", "JOB", " ", "model", " ", "ABORTED", "\n">>
HeaderLine == <<"Abaqus", " ", "JOB", " ", "model", "\n">>

\* Contents of a .log file: the lines readlines() returns.
LogFiles == { <<HeaderLine, CompletedLine>>, <<HeaderLine, CompletedLineNoEol>>,
              <<HeaderLine, AbortedLine>>, <<>> }

\* How the file says its job ended: the last word of its last line.
RECURSIVE LastWord(_)
LastWord(line) ==
    IF line = <<>> THEN ""
    ELSE IF line[Len(line)] \in {" ", "\n"} THEN LastWord(SubSeq(line, 1, Len(line) - 1))
    ELSE line[Len(line)]

JobCompleted(file) == file # <<>> /\ LastWord(file[Len(file)]) = "COMPLETED"

\* line.split(' ')[-1]: what follows the last blank of the line.
RECURSIVE LastField(_)
LastField(line) ==
    IF line = <<>> \/ line[Len(line)] = " " THEN <<>>
    ELSE Append(LastField(SubSeq(line, 1, Len(line) - 1)), line[Len(line)])

\* st.sort_strings_by_digit and st.extract_number_from_str over the files
\* listed by ft.list_files_with_extension: the numbers of the log files,
\* ascending.
RECURSIVE SortedNumbers(_)
SortedNumbers(S) ==
    IF S = {} THEN <<>>
    ELSE LET m == CHOOSE x \in S : \A y \in S : x <= y
         IN  <<m>> \o SortedNumbers(S \ {m})

\* mt.check_array_consecutiveness(numbers): (consecutive?, missing numbers)
CheckArrayConsecutiveness(numbers) ==
    LET missing == IF numbers = <<>> THEN {}
                   ELSE { n \in numbers[1]..numbers[Len(numbers)] :
                            \A i \in DOMAIN numbers : numbers[i] # n }
    IN  <<missing = {}, missing>>

\* Lines 526-542: the status after the consecutiveness check and the loop
\* over the log files; lines_list[-1] raises IndexError on a file without
\* lines.
StatusOut(logFiles) ==
    LET numbers == SortedNumbers(DOMAIN logFiles)
        check_files == CheckArrayConsecutiveness(numbers)[1]
    IN  IF \E n \in DOMAIN logFiles : logFiles[n] = <<>>
        THEN [raised |-> "IndexError", value |-> FALSE]
        ELSE [raised |-> "none",
              value |-> /\ check_files
                        /\ \A n \in DOMAIN logFiles :
                              LastField(logFiles[n][Len(logFiles[n])])
                                  = <<"COMPLETED", "\n">>]

\* Lines 545-547: the report concatenates a str and root_path, which raises
\* TypeError when root_path is a Path; then the status is returned.
Report(rootType, st) ==
    IF st.raised # "none" THEN st
    ELSE IF rootType = "Path" THEN [raised |-> "TypeError", value |-> FALSE]
    ELSE st

CheckInit ==
    /\ root_path \in {"str", "Path"}
    /\ \E S \in SUBSET (1..MaxLogNo) : logs \in [S -> LogFiles]
    /\ cpc = "called"
    /\ status_out = [raised |-> "none", value |-> FALSE]

parametric_check_odb_files ==
    /\ cpc = "called"
    /\ cpc' = "done"
    /\ status_out' = Report(root_path, StatusOut(logs))
    /\ UNCHANGED <<root_path, logs>>
    /\ UNCHANGED nonCheck

CheckNext == parametric_check_odb_files


-----------------------------------------------------------------------------
(* The parametric pipeline of abaqus_outside.py *)

MaxCalls == 2
MaxParams == 2
MaxCpus == 2

NoArg == [parameters |-> 0, inp |-> TRUE, folder |-> "cfg", input |-> <<>>,
          script |-> TRUE, cpu_numbers |-> 0, max_cpu_no |-> 1]

Current == IF stack = <<>> THEN "none" ELSE stack[Len(stack)]

Alive == { p \in DOMAIN procs : procs[p].state = "running" }

\* subprocess.Popen(command, shell=True): a child process is started.
Popen(cmd) ==
    /\ Len(procs) <= MaxCalls
    /\ procs' = Append(procs, [cmd |-> cmd, call |-> calls, state |-> "running"])
    /\ launched' = [launched EXCEPT ![Len(stack)] = @ + 1]
    /\ steps' = Append(steps, "start")

CommunicateAtOnce(p) == TRUE

\* p.communicate() returns when the child has terminated.
Communicate(p) == procs[p].state # "running"

RetryOnFailure(p) == IF procs[p].state = "failed" THEN "popen" ELSE "return"

\* What the function does once communicate() has returned: the exit status
\* of the child is not looked at.
AfterCommunicate(p) == "return"

CpfRunBeforeInp(pos) ==
    CASE pos = "cpf_csv" -> "cpf_psf"
      [] pos = "cpf_psf" -> "cpf_run"
      [] pos = "cpf_run" -> "cpf_inp"
      [] pos = "cpf_inp" -> "cpf_mod"
      [] pos = "cpf_mod" -> "return"

\* Lines 352-361: the statements of create_parametric_files, in order.
CpfNext(pos) ==
    CASE pos = "cpf_csv" -> "cpf_psf"
      [] pos = "cpf_psf" -> "cpf_inp"
      [] pos = "cpf_inp" -> "cpf_run"
      [] pos = "cpf_run" -> "cpf_mod"
      [] pos = "cpf_mod" -> "return"

\* A call is entered from the script that drives the pipeline.
CallTop(fn, a, pos) ==
    /\ ppc = "idle"
    /\ calls < MaxCalls
    /\ calls' = calls + 1
    /\ stack' = <<fn>>
    /\ launched' = <<0>>
    /\ arg' = a
    /\ steps' = <<>>
    /\ ppc' = pos
    /\ UNCHANGED <<files, psf, psf_text, csv, procs, ended>>
    /\ UNCHANGED nonPipeline

\* The current function returns to its caller, at position `pos` of it.
ReturnTo(pos) ==
    /\ ended' = Append(ended, [fn |-> Current, how |-> "returned",
                               call |-> calls,
                               launched |-> launched[Len(stack)]])
    /\ stack' = SubSeq(stack, 1, Len(stack) - 1)
    /\ launched' = SubSeq(launched, 1, Len(stack) - 1)
    /\ ppc' = IF Len(stack) = 1 THEN "idle" ELSE pos

\* An exception is raised and nothing catches it: the script stops.
Raise ==
    /\ ended' = ended \o
                [i \in 1..Len(stack) |->
                    [fn |-> stack[Len(stack) + 1 - i], how |-> "raised",
                     call |-> calls,
                     launched |-> launched[Len(stack) + 1 - i]]]
    /\ stack' = <<>>
    /\ launched' = <<>>
    /\ ppc' = "stopped"

\* The study configuration: number of parameters, whether the inp template
\* can be modified, whether analysis_folder is set in the cfg (a str), is
\* set to an empty value or is the default (the study folder, a Path),
\* cpu_numbers of the cfg (0: not in it) and the cpus of the machine.
Args == [parameters : 1..MaxParams, inp : BOOLEAN,
         folder : {"cfg", "empty", "default"},
         input : {<<>>}, script : {TRUE},
         cpu_numbers : 0..MaxCpus, max_cpu_no : 1..MaxCpus]

create_parametric_files ==
    /\ \E a \in Args : CallTop("create_parametric_files", a, "cpf_csv")

\* The names a study can give to its parameters.
ParameterNames == <<"ALPHA_DYN", "E", "NU", "RHO">>

\* parameters_list of a study with n parameters.
ParametersList(n) == SubSeq(ParameterNames, 1, n)

\* Lines 108-111: df is assigned for a one parameter study only, with the
\* parameter as its single column; otherwise the local df stays unbound.
DataFrame(parameters_list) ==
    IF Len(parameters_list) = 1
    THEN [bound |-> TRUE, columns |-> parameters_list]
    ELSE [bound |-> FALSE, columns |-> <<>>]

\* Line 114: df.insert(0, "MODEL_NO", ...) puts the column in front.
InsertModelNo(columns) == <<"MODEL_NO">> \o columns

\* build_parametric_csv: the data-frame is built, MODEL_NO is inserted and
\* the csv is saved; reading the unbound df at line 114 raises
\* UnboundLocalError before anything is written.
BuildParametricCsv ==
    /\ ppc = "cpf_csv"
    /\ LET df == DataFrame(ParametersList(arg.parameters))
       IN IF df.bound
          THEN /\ files' = files \cup {"csv"}
               /\ csv' = InsertModelNo(df.columns)
               /\ steps' = Append(steps, "csv")
               /\ ppc' = CpfNext(ppc)
               /\ UNCHANGED <<stack, launched, ended>>
          ELSE /\ Raise
               /\ UNCHANGED <<files, csv, steps>>
    /\ UNCHANGED <<arg, psf, psf_text, procs, calls>>
    /\ UNCHANGED nonPipeline

\* ---- text files: a text is a sequence of tokens, "\n" ends a line ----

STUDY_NAME == "IDL_2D"
ANALYSIS_FOLDER == "C:/abaqus_results"

\* '\n'.join(lines)
RECURSIVE JoinLines(_)
JoinLines(lines) ==
    IF lines = <<>> THEN <<>>
    ELSE IF Len(lines) = 1 THEN lines[1]
    ELSE lines[1] \o <<"\n">> \o JoinLines(Tail(lines))

\* ''.join(lines)
RECURSIVE Join(_)
Join(lines) == IF lines = <<>> THEN <<>> ELSE lines[1] \o Join(Tail(lines))

\* file.readlines(): the lines of the text, each with the "\n" that ends it.
RECURSIVE ReadLines(_)
ReadLines(text) ==
    IF text = <<>> THEN <<>>
    ELSE LET ends == { i \in 1..Len(text) : text[i] = "\n" }
         IN IF ends = {} THEN <<text>>
            ELSE LET k == CHOOSE i \in ends : \A j \in ends : i <= j
                 IN <<SubSeq(text, 1, k)>>
                    \o ReadLines(SubSeq(text, k + 1, Len(text)))

\* needle in line
Contains(line, needle) ==
    \E i \in 1..(Len(line) - Len(needle) + 1) :
        SubSeq(line, i, i + Len(needle) - 1) = needle

\* [i for i in lines if needle in i]
Matching(lines, needle) == SelectSeq(lines, LAMBDA l : Contains(l, needle))

\* [...][0]: IndexError on an empty list.
First(list) ==
    IF list = <<>> THEN [raised |-> TRUE, list |-> <<>>]
    ELSE [raised |-> FALSE, list |-> <<list[1]>>]

\* str(parameters_list)
RECURSIVE Items(_)
Items(list) ==
    IF list = <<>> THEN <<>>
    ELSE IF Len(list) = 1 THEN <<"'", list[1], "'">>
    ELSE <<"'", list[1], "'", ", ">> \o Items(Tail(list))

StrOfList(list) == <<"[">> \o Items(list) \o <<"]">>

\* analysis_folder as the functions receive it: "" stands for an empty value.
AnalysisFolder(a) == IF a.folder = "cfg" THEN ANALYSIS_FOLDER ELSE ""

\* Lines 159-163.
ChangeFolderLine(analysis_folder, study_nam) ==
    IF analysis_folder = "" THEN <<>>
    ELSE <<"os.chdir", "(\"", analysis_folder, "/", study_nam, "/", "\")">>

ParametersLine(parameters_list) ==
    <<"parameters", " = ">> \o StrOfList(parameters_list)

StudyLine == <<"study", " = ", "ParStudy(par=(", "parameters", "))">>

\* Lines 170-179.
PsfHeader(study_nam, parameters_list, analysis_folder) ==
    << <<"import csv">>,
       <<"import os">>,
       <<"print(\"EXECUTION FOLDER: \" + ", "os.getcwd", "())">>,
       ChangeFolderLine(analysis_folder, study_nam),
       <<"with open(\"", study_nam, ".csv\") as csvfile:">>,
       <<"    reader = csv.DictReader(csvfile)">>,
       <<"    lines = [row for row in reader]">>,
       ParametersLine(parameters_list),
       <<"domains", " = ", "{parameter :[k[parameter] for k in lines]",
         " for parameter in ", "parameters", "}">> >>

\* Lines 185-192.
PsfStudyLines(inp_file_name) ==
    << StudyLine,
       <<"for parameter in ", "parameters", ":">>,
       <<"    ", "study", ".define",
         "(DISCRETE,par=parameter, domain=domains[parameter])">>,
       <<"for parameter in ", "parameters", ":">>,
       <<"    ", "study", ".sample", "(INTERVAL, interval=1, par=parameter)">>,
       <<"study", ".combine", "(TUPLE, name=\"model\")">>,
       <<"study", ".generate", "(template=\"", inp_file_name, "\")">> >>

\* Lines 339-342: cpu_numbers is the value of the cfg unless it is missing
\* or larger than the number of cpus of the machine.
CpuNumbers(a) ==
    IF a.cpu_numbers = 0 \/ a.cpu_numbers > a.max_cpu_no
    THEN a.max_cpu_no ELSE a.cpu_numbers

\* Lines 323-324.
ExecutionLine(cpu_numbers) ==
    <<"study", ".execute", "(ALL, execOptions", " = ", "\"cpus=",
      ToString(cpu_numbers), "\")">>

Psf4RunKeepsAll(text, analysis_folder, cpu_numbers) ==
    [raised |-> FALSE,
     text |-> text \o <<"\n">> \o ExecutionLine(cpu_numbers)]

\* Lines 312-327: the text modify_psf_4_run writes, from the text it reads.
Psf4RunText(text, analysis_folder, cpu_numbers) ==
    LET lines == ReadLines(text)
        line_0 == IF analysis_folder # ""
                  THEN First(Matching(lines, <<"os.chdir">>))
                  ELSE [raised |-> FALSE, list |-> <<>>]
        parameters_line == First(Matching(lines, <<"parameters", " = ">>))
        study_line == First(Matching(lines, <<"study", " = ">>))
        execution_line == <<ExecutionLine(cpu_numbers)>>
    IN [raised |-> line_0.raised \/ parameters_line.raised
                    \/ study_line.raised,
        text |-> Join(line_0.list \o parameters_line.list
                       \o study_line.list \o execution_line)]

\* What the last line of a psf asks Abaqus to do.
PsfKind(text) ==
    LET lines == ReadLines(text)
    IN IF lines = <<>> THEN "none"
       ELSE IF Contains(lines[Len(lines)], <<"study", ".execute">>)
       THEN "execute"
       ELSE IF Contains(lines[Len(lines)], <<"study", ".generate">>)
       THEN "generate"
       ELSE "none"

\* build_parametric_psf: header and study lines are written to the psf of
\* the study folder. The os.chdir line concatenates str and analysis_folder
\* (line 162), which raises TypeError when analysis_folder is the default
\* Path of line 346.
BuildParametricPsf ==
    /\ ppc = "cpf_psf"
    /\ IF arg.folder # "default"
       THEN LET text == JoinLines(
                    PsfHeader(STUDY_NAME, ParametersList(arg.parameters),
                              AnalysisFolder(arg))
                    \o PsfStudyLines(STUDY_NAME))
            IN /\ files' = files \cup {"psf"}
               /\ psf_text' = [psf_text EXCEPT !.study = text]
               /\ psf' = PsfKind(text)
               /\ steps' = Append(steps, "psf")
               /\ ppc' = CpfNext(ppc)
               /\ UNCHANGED <<stack, launched, ended>>
       ELSE /\ Raise
            /\ UNCHANGED <<files, psf, psf_text, steps>>
    /\ UNCHANGED <<arg, csv, procs, calls>>
    /\ UNCHANGED nonPipeline

\* modify_inp_file: raises when the inp file cannot be found or has no
\* '** ASSEMBLY' line.
ModifyInpFile ==
    /\ ppc = "cpf_inp"
    /\ IF arg.inp
       THEN /\ files' = files \cup {"inp"}
            /\ steps' = Append(steps, "inp")
            /\ ppc' = CpfNext(ppc)
            /\ UNCHANGED <<stack, launched, ended>>
       ELSE /\ Raise
            /\ UNCHANGED <<files, steps>>
    /\ UNCHANGED <<arg, psf, psf_text, csv, procs, calls>>
    /\ UNCHANGED nonPipeline

\* ---- paths: a path is a sequence of names, a name is a base followed ----
\* ---- by its dotted parts (<<"beam", ".v2", ".cfg">> is beam.v2.cfg)  ----

\* Path(a, b, ...): empty components are dropped.
PathOf(names) == SelectSeq(names, LAMBDA n : n # <<>> /\ n # <<"">>)

\* Path.suffix: the last dotted part of the last name, '' when it has none.
Suffix(path) ==
    IF path = <<>> \/ Len(path[Len(path)]) < 2 THEN ""
    ELSE path[Len(path)][Len(path[Len(path)])]

\* Path.stem: the last name without its suffix.
Stem(path) ==
    IF path = <<>> THEN <<>>
    ELSE IF Len(path[Len(path)]) < 2 THEN path[Len(path)]
    ELSE SubSeq(path[Len(path)], 1, Len(path[Len(path)]) - 1)

\* Path.with_suffix(suffix): the suffix of the last name is replaced, or
\* the new one appended when the name has none.
WithSuffix(path, suffix) ==
    [path EXCEPT ![Len(path)] = Append(Stem(path), suffix)]

\* str(path): names joined with the separator.
RECURSIVE Str(_)
Str(path) ==
    IF path = <<>> THEN <<>>
    ELSE IF Len(path) = 1 THEN path[1]
    ELSE path[1] \o <<"/">> \o Str(Tail(path))

\* Lines 104 and 156: the psf of the study folder.
PsfFilePath(study_nam) ==
    WithSuffix(PathOf(<< <<"cwd">>, <<study_nam>>, <<study_nam>> >>), ".psf")

\* Lines 629-634: psf_file is the input itself for a .psf input, is built
\* from analysis_folder of the cfg and the stem for a .cfg input (KeyError
\* when the cfg has no analysis_folder), and stays unbound otherwise.
PsfFile(input_var, a) ==
    IF Suffix(input_var) = ".psf"
    THEN [raised |-> FALSE, path |-> input_var]
    ELSE IF Suffix(input_var) = ".cfg"
    THEN IF a.folder = "default"
         THEN [raised |-> TRUE, path |-> <<>>]
         ELSE [raised |-> FALSE,
               path |-> WithSuffix(PathOf(<< <<AnalysisFolder(a)>>,
                                             Stem(input_var),
                                             Stem(input_var) >>), ".psf")]
    ELSE [raised |-> TRUE, path |-> <<>>]

\* Line 357: run_psf(psf_file, **input_data)
CpfRunPsf ==
    /\ ppc = "cpf_run"
    /\ stack' = Append(stack, "run_psf")
    /\ launched' = Append(launched, 0)
    /\ arg' = [arg EXCEPT !.input = PsfFilePath(STUDY_NAME)]
    /\ ppc' = "psf_popen"
    /\ UNCHANGED <<files, psf, psf_text, csv, procs, steps, ended, calls>>
    /\ UNCHANGED nonPipeline

\* Lines 306-310: the psf is written to the study sub-folder of the analysis
\* folder, or over the input psf when no analysis folder is given.
OutPsf(analysis_folder) == IF analysis_folder # "" THEN "analysis" ELSE "study"

\* modify_psf_4_run: the lines of the study psf are read, the run psf is
\* written; a missing line raises IndexError at its [0].
ModifyPsf4Run ==
    /\ ppc = "cpf_mod"
    /\ LET out == Psf4RunText(psf_text.study, AnalysisFolder(arg),
                              CpuNumbers(arg))
       IN IF ~out.raised
          THEN /\ files' = files \cup {"psf"}
               /\ psf_text' = [psf_text EXCEPT
                                  ![OutPsf(AnalysisFolder(arg))] = out.text]
               /\ psf' = PsfKind(out.text)
               /\ steps' = Append(steps, "psf_run")
               /\ ReturnTo(CpfNext(ppc))
          ELSE /\ Raise
               /\ UNCHANGED <<files, psf, psf_text, steps>>
    /\ UNCHANGED <<arg, csv, procs, calls>>
    /\ UNCHANGED nonPipeline

\* The files run_psf can be given, in the folder of the main script.
InputNames ==
    { <<STUDY_NAME, ".psf">>, <<STUDY_NAME, ".cfg">>, <<STUDY_NAME, ".txt">>,
      <<STUDY_NAME, ".v2", ".cfg">> }

run_psf ==
    /\ \E n \in InputNames, f \in {"cfg", "default"} :
        CallTop("run_psf",
                [NoArg EXCEPT !.input = PathOf(<< <<"main">>, Stem(<<n>>), n >>),
                              !.folder = f],
                "psf_popen")

\* Lines 629-638: psf_file is built, printed and the child is started;
\* reading the unbound psf_file raises UnboundLocalError.
RunPsfPopen ==
    /\ ppc = "psf_popen"
    /\ LET psf_file == PsfFile(arg.input, arg)
       IN IF ~psf_file.raised
          THEN /\ Popen(<<"abaqus script=">> \o Str(psf_file.path))
               /\ ppc' = "psf_wait"
               /\ UNCHANGED <<stack, ended>>
          ELSE /\ Raise
               /\ UNCHANGED <<procs, steps>>
    /\ UNCHANGED <<arg, files, psf, psf_text, csv, calls>>
    /\ UNCHANGED nonPipeline

\* Line 639: p.communicate(), then run_psf returns.
RunPsfCommunicate ==
    /\ ppc = "psf_wait"
    /\ Communicate(Len(procs))
    /\ IF AfterCommunicate(Len(procs)) = "return"
       THEN /\ ReturnTo(CpfNext("cpf_run"))
            /\ steps' = Append(steps, "end")
       ELSE /\ ppc' = "psf_popen"
            /\ UNCHANGED <<stack, launched, ended, steps>>
    /\ UNCHANGED <<arg, files, psf, psf_text, csv, procs, calls>>
    /\ UNCHANGED nonPipeline

extract_fea_data ==
    /\ \E ok \in BOOLEAN :
        CallTop("extract_fea_data", [NoArg EXCEPT !.script = ok], "efd_script")

\* modify_gather_script, then line 495: run_abaqus_subprocess(script=...).
\* Opening the extraction algorithm raises when the script is missing.
ModifyGatherScript ==
    /\ ppc = "efd_script"
    /\ IF arg.script
       THEN /\ files' = files \cup {"temp_script"}
            /\ stack' = Append(stack, "run_abaqus_subprocess")
            /\ launched' = Append(launched, 0)
            /\ ppc' = "sub_popen"
            /\ UNCHANGED ended
       ELSE /\ Raise
            /\ UNCHANGED files
    /\ UNCHANGED <<arg, psf, psf_text, csv, procs, steps, calls>>
    /\ UNCHANGED nonPipeline

run_abaqus_subprocess ==
    /\ CallTop("run_abaqus_subprocess", NoArg, "sub_popen")

\* Lines 578-594: the command is built and the child is started.
SubprocessPopen ==
    /\ ppc = "sub_popen"
    /\ Popen(<<"abaqus cae noGUI=">>)
    /\ ppc' = "sub_wait"
    /\ UNCHANGED <<stack, arg, files, psf, psf_text, csv, ended, calls>>
    /\ UNCHANGED nonPipeline

\* Lines 595-609: p.communicate(), the output is filtered and returned;
\* extract_fea_data returns it in turn (line 496).
SubprocessCommunicate ==
    /\ ppc = "sub_wait"
    /\ Communicate(Len(procs))
    /\ IF AfterCommunicate(Len(procs)) = "return"
       THEN /\ ReturnTo("efd_return")
            /\ steps' = Append(steps, "end")
       ELSE /\ ppc' = "sub_popen"
            /\ UNCHANGED <<stack, launched, ended, steps>>
    /\ UNCHANGED <<arg, files, psf, psf_text, csv, procs, calls>>
    /\ UNCHANGED nonPipeline

ExtractReturn ==
    /\ ppc = "efd_return"
    /\ ReturnTo("idle")
    /\ UNCHANGED <<arg, files, psf, psf_text, csv, procs, steps, calls>>
    /\ UNCHANGED nonPipeline

\* summarize_fea_output: reads the csv and the npz files and writes the
\* hdf5 file; pd.read_csv raises when the csv is missing. No child process.
summarize_fea_output ==
    /\ calls < MaxCalls
    /\ ppc = "idle"
    /\ calls' = calls + 1
    /\ arg' = NoArg
    /\ steps' = <<>>
    /\ IF "csv" \in files
       THEN /\ files' = files \cup {"hdf5"}
            /\ ended' = Append(ended, [fn |-> "summarize_fea_output",
                                       how |-> "returned",
                                       call |-> calls', launched |-> 0])
            /\ ppc' = "idle"
       ELSE /\ ended' = Append(ended, [fn |-> "summarize_fea_output",
                                       how |-> "raised",
                                       call |-> calls', launched |-> 0])
            /\ ppc' = "stopped"
            /\ UNCHANGED files
    /\ UNCHANGED <<stack, launched, psf, psf_text, csv, procs>>
    /\ UNCHANGED nonPipeline

\* The Abaqus child terminates, with or without an error.
ChildExits ==
    /\ \E p \in Alive, s \in {"exited", "failed"} :
          procs' = [procs EXCEPT ![p].state = s]
    /\ UNCHANGED <<ppc, stack, arg, files, psf, psf_text, csv, steps, launched, ended, calls>>
    /\ UNCHANGED nonPipeline

PipelineInit ==
    /\ ppc = "idle"
    /\ stack = <<>>
    /\ arg = NoArg
    /\ files = {}
    /\ psf = "none"
    /\ psf_text = [study |-> <<>>, analysis |-> <<>>]
    /\ csv = <<>>
    /\ procs = <<>>
    /\ steps = <<>>
    /\ launched = <<>>
    /\ ended = <<>>
    /\ calls = 0

PipelineNext ==
    \/ create_parametric_files
    \/ BuildParametricCsv
    \/ BuildParametricPsf
    \/ ModifyInpFile
    \/ CpfRunPsf
    \/ ModifyPsf4Run
    \/ run_psf
    \/ RunPsfPopen
    \/ RunPsfCommunicate
    \/ extract_fea_data
    \/ ModifyGatherScript
    \/ run_abaqus_subprocess
    \/ SubprocessPopen
    \/ SubprocessCommunicate
    \/ ExtractReturn
    \/ summarize_fea_output
    \/ ChildExits

-----------------------------------------------------------------------------
(* The main script of examples/main_script.py *)

MaxStudies == 2

\* The functions abaqus_outside.py defines at module level.
AbaqusOutsideNames ==
    { "create_parametric_files", "extract_fea_data",
      "parametric_check_odb_files", "run_abaqus_subprocess", "run_psf",
      "summarize_fea_output" }

\* Line 5: from abaqus_outside import ...
ImportedNames ==
    { "run_psf", "parametric_create_files", "parametric_extract_fea_data",
      "parametric_summarize_output" }

\* 'from module import names' raises ImportError when the module does not
\* define one of the names.
ImportFrom(defined, names) ==
    IF names \subseteq defined THEN "none" ELSE "ImportError"

\* Lines 58-67: the flags of CONFIG_PROJECTS, in the order they are tested,
\* and the function called under each.
Stages ==
    << [flag |-> "create_parametric_files", call |-> "parametric_create_files"],
       [flag |-> "run_parametric_analysis", call |-> "run_psf"],
       [flag |-> "extract_fea_output", call |-> "parametric_extract_fea_data"],
       [flag |-> "summarize_output", call |-> "parametric_summarize_output"],
       [flag |-> "post_process", call |-> "post_process"] >>

\* Lines 57-67: one pass of the loop body, for the study at STUDY_NUM. Each
\* call returns before the next if is evaluated.
RECURSIVE LoopBody(_, _, _)
LoopBody(config, STUDY_NUM, k) ==
    IF k > Len(Stages) THEN <<>>
    ELSE (IF config[Stages[k].flag][STUDY_NUM]
          THEN << [study |-> STUDY_NUM, stage |-> Stages[k].flag] >>
          ELSE <<>>)
         \o LoopBody(config, STUDY_NUM, k + 1)

\* Line 56: for STUDY_NUM, STUDY_NAME in enumerate(study_names)
RECURSIVE StudiesLoop(_, _)
StudiesLoop(config, STUDY_NUM) ==
    IF STUDY_NUM > Len(config.study_names) THEN <<>>
    ELSE LoopBody(config, STUDY_NUM, 1) \o StudiesLoop(config, STUDY_NUM + 1)

\* The main cfg files: up to MaxStudies studies, a flag per stage and study.
Configs ==
    UNION { [study_names : {[i \in 1..n |-> i]},
             create_parametric_files : [1..n -> BOOLEAN],
             run_parametric_analysis : [1..n -> BOOLEAN],
             extract_fea_output : [1..n -> BOOLEAN],
             summarize_output : [1..n -> BOOLEAN],
             post_process : [1..n -> BOOLEAN]] : n \in 0..MaxStudies }

MainInit ==
    /\ CONFIG_PROJECTS \in Configs
    /\ script = "start"
    /\ script_raised = "none"
    /\ stages_run = <<>>

\* The script is run: the imports of lines 1-12, then the loop of lines
\* 56-67 over the studies of the main cfg.
main_script ==
    /\ script = "start"
    /\ script' = "ended"
    /\ script_raised' = ImportFrom(AbaqusOutsideNames, ImportedNames)
    /\ stages_run' = IF script_raised' = "none"
                     THEN StudiesLoop(CONFIG_PROJECTS, 1)
                     ELSE <<>>
    /\ UNCHANGED CONFIG_PROJECTS
    /\ UNCHANGED nonMain

MainNext ==
    \/ main_script

-----------------------------------------------------------------------------
(* Specifications: each starts one part of the scripts, the others idle *)

MacroOff ==
    /\ models = {}
    /\ jobs = <<>>
    /\ mpc = "idle"
    /\ macro = "off"
    /\ outcome = "none"
    /\ pre = [models |-> {}, jobs |-> <<>>]
    /\ created = <<>>
    /\ queue = <<>>
    /\ idx = 1
    /\ submitted = <<>>
    /\ visited = <<>>

SessionOff ==
    /\ xyDataObjects = {}
    /\ xyPlots = {}
    /\ odbs = {}
    /\ smacro = "off"
    /\ spre = [xyDataObjects |-> {}, xyPlots |-> {}, odbs |-> {}]

CheckOff ==
    /\ root_path = "str"
    /\ logs = <<>>
    /\ cpc = "off"
    /\ status_out = [raised |-> "none", value |-> FALSE]

PipelineOff ==
    /\ ppc = "off"
    /\ stack = <<>>
    /\ arg = NoArg
    /\ files = {}
    /\ psf = "none"
    /\ psf_text = [study |-> <<>>, analysis |-> <<>>]
    /\ csv = <<>>
    /\ procs = <<>>
    /\ steps = <<>>
    /\ launched = <<>>
    /\ ended = <<>>
    /\ calls = 0

MainOff ==
    /\ CONFIG_PROJECTS = [study_names |-> <<>>]
    /\ script = "off"
    /\ script_raised = "none"
    /\ stages_run = <<>>

InitMacros ==
    /\ MacroInit /\ SessionOff /\ CheckOff /\ PipelineOff /\ MainOff

InitSession ==
    /\ SessionInit /\ MacroOff /\ CheckOff /\ PipelineOff /\ MainOff

InitCheck ==
    /\ CheckInit /\ MacroOff /\ SessionOff /\ PipelineOff /\ MainOff

InitPipeline ==
    /\ PipelineInit /\ MacroOff /\ SessionOff /\ CheckOff /\ MainOff

InitMain ==
    /\ MainInit /\ MacroOff /\ SessionOff /\ CheckOff /\ PipelineOff

SpecMacros == InitMacros /\ [][MacroNext]_vars

SpecSession == InitSession /\ [][SessionNext]_vars

SpecCheck == InitCheck /\ [][CheckNext]_vars

SpecPipeline == InitPipeline /\ [][PipelineNext]_vars

SpecMain == InitMain /\ [][MainNext]_vars

-----------------------------------------------------------------------------
(* Properties *)

Returned(name) == mpc = "idle" /\ macro = name /\ outcome = "returned"

Range(q) == { q[i] : i \in DOMAIN q }

IsPrefix(q, r) == Len(q) <= Len(r) /\ q = SubSeq(r, 1, Len(q))

\* The outermost function being executed, or the one that ended last.
LastTop ==
    IF stack # <<>> THEN stack[1]
    ELSE IF ended # <<>> THEN ended[Len(ended)].fn
    ELSE "none"

StartedBy(c) == { p \in DOMAIN procs : procs[p].call = c }

CpfSteps == <<"csv", "psf", "inp", "start", "end", "psf_run">>

(* C1: in every run of create_parametric_files the csv is written, then    *)
(* the generation psf, then the inp is modified, then the psf is run       *)
(* through Abaqus, then the psf is rewritten for execution; the Abaqus     *)
(* process is started only once csv, psf and modified inp exist, and the   *)
(* run-ready psf is written only after that process has terminated.        *)
C1_StepsInOrder ==
    LastTop = "create_parametric_files" =>
        /\ IsPrefix(steps, CpfSteps)
        /\ StartedBy(calls) # {} =>
              /\ {"csv", "psf", "inp"} \subseteq files
              /\ IsPrefix(<<"csv", "psf", "inp", "start">>, steps)
        /\ "psf_run" \in Range(steps) =>
              /\ psf = "execute"
              /\ StartedBy(calls) # {}
              /\ StartedBy(calls) \cap Alive = {}
        /\ Alive # {} => psf = "generate"

C1_Witness ==
    /\ LastTop = "create_parametric_files"
    /\ ppc = "idle"
    /\ steps = CpfSteps
    /\ calls = MaxCalls

(* C2: at most one Abaqus subprocess started by this code is alive at any  *)
(* moment: run_psf and run_abaqus_subprocess return only after their child *)
(* has terminated, and no pipeline function starts a second child while    *)
(* one is still running.                                                   *)
C2_OneChildAlive ==
    /\ Cardinality(Alive) <= 1
    /\ Alive # {} => /\ ppc \in {"psf_wait", "sub_wait"}
                     /\ Current \in {"run_psf", "run_abaqus_subprocess"}
                     /\ Alive = {Len(procs)}
    /\ \A i \in DOMAIN ended :
          ended[i].how = "returned" => StartedBy(ended[i].call) \cap Alive = {}

C2_Witness ==
    /\ Len(procs) = 2
    /\ procs[1].state # "running"
    /\ procs[2].state = "running"

(* C3: there is no retry: a call of run_psf or run_abaqus_subprocess       *)
(* starts exactly one Abaqus subprocess whatever its outcome, a subprocess *)
(* that fails is never started again, and one call of                      *)
(* create_parametric_files starts exactly one subprocess in total.         *)
C3_NoRetry ==
    /\ \A i \in DOMAIN launched : launched[i] <= 1
    /\ \A c \in 1..calls : Cardinality(StartedBy(c)) <= 1
    /\ \A p \in DOMAIN procs :
          procs[p].state = "failed" =>
              \A q \in DOMAIN procs : q > p => procs[q].call # procs[p].call
    /\ \A i \in DOMAIN ended :
          /\ ended[i].launched <= 1
          /\ ( /\ ended[i].how = "returned"
               /\ ended[i].fn \in {"run_psf", "run_abaqus_subprocess"} )
             => ended[i].launched = 1
          /\ ( /\ ended[i].how = "returned"
               /\ ended[i].fn = "create_parametric_files" )
             => Cardinality(StartedBy(ended[i].call)) = 1

C3_Witness ==
    /\ ppc = "idle"
    /\ LastTop = "create_parametric_files"
    /\ \E p \in StartedBy(calls) : procs[p].state = "failed"
    /\ \E i \in DOMAIN ended :
          /\ ended[i].fn = "run_abaqus_subprocess"
          /\ ended[i].how = "returned"
          /\ \E p \in StartedBy(ended[i].call) : procs[p].state = "failed"

(* C4: parametric_check_odb_files returns True if and only if no numbered  *)
(* .log file is missing and the status at the end of every .log file is    *)
(* COMPLETED; in every other case it returns False.                        *)
C4_ReturnsCompleteness ==
    cpc = "done" =>
        /\ status_out.raised = "none"
        /\ status_out.value =
              ( /\ CheckArrayConsecutiveness(SortedNumbers(DOMAIN logs))[1]
                /\ \A n \in DOMAIN logs : JobCompleted(logs[n]) )

Ended == { "COMPLETED", "ABORTED" }

-----------------------------------------------------------------------------
(* C5: jobs_create_4all_models creates a job only for the models that have *)
(* no job named after them yet; every job that exists before the call is   *)
(* left as it is, neither created again nor overwritten.                   *)
C5_ExistingJobsUntouched ==
    Returned("jobs_create_4all_models") =>
        /\ \A n \in DOMAIN pre.jobs :
              /\ n \in DOMAIN jobs
              /\ jobs[n] = pre.jobs[n]
              /\ Count(created, n) = 0
        /\ DOMAIN jobs = DOMAIN pre.jobs \cup { Replace(m) : m \in models }

(* C6: after jobs_create_4all_models_with_overwrite returns, every model   *)
(* has a job named after it (blanks replaced by underscores) that refers   *)
(* to that model, with numCpus and numDomains equal to CPUS_NUMBER.        *)
C6_EveryModelHasItsJob ==
    Returned("jobs_create_4all_models_with_overwrite") =>
        \A m \in models :
            /\ Replace(m) \in DOMAIN jobs
            /\ jobs[Replace(m)].model = m
            /\ jobs[Replace(m)].numCpus = CPUS_NUMBER
            /\ jobs[Replace(m)].numDomains = CPUS_NUMBER

(* C7: jobs_run_all submits every job exactly once, one at a time: a job   *)
(* is submitted only after the job submitted before it has ended, so no    *)
(* two jobs run at the same time.                                          *)
C7_RunAllOneAtATime ==
    macro = "jobs_run_all" =>
        /\ Cardinality(Running) <= 1
        /\ mpc \in {"loop", "idle"} => Running = {}
        /\ \A i \in 1..Len(queue) :
              /\ i < idx => /\ submitted[queue[i]] = 1
                            /\ jobs[queue[i]].status \in Ended
              /\ i > idx => submitted[queue[i]] = 0
        /\ \A j \in DOMAIN jobs : submitted[j] <= 1
        /\ Returned("jobs_run_all") =>
              \A j \in DOMAIN jobs : submitted[j] = 1

C7_Witness ==
    /\ Returned("jobs_run_all")
    /\ Cardinality(DOMAIN jobs) >= 2
    /\ \E j \in DOMAIN jobs : jobs[j].status = "ABORTED"
    /\ \E j \in DOMAIN jobs : pre.jobs[j].status = "COMPLETED"

(* C8: jobs_run_not_completed submits exactly the jobs whose status is not *)
(* COMPLETED when they are visited, each waited for before the next is     *)
(* submitted; a job whose status is COMPLETED is never submitted.          *)
C8_RunNotCompleted ==
    macro = "jobs_run_not_completed" =>
        /\ Cardinality(Running) <= 1
        /\ mpc \in {"loop", "idle"} => Running = {}
        /\ \A j \in DOMAIN jobs :
              submitted[j] = IF visited[j] \in {"unvisited", "COMPLETED"}
                             THEN 0 ELSE 1
        /\ \A i \in 1..Len(queue) :
              i < idx => /\ visited[queue[i]] # "unvisited"
                         /\ jobs[queue[i]].status \in Ended
                         /\ visited[queue[i]] = pre.jobs[queue[i]].status
        /\ Returned("jobs_run_not_completed") =>
              \A j \in DOMAIN jobs : visited[j] # "unvisited"

C8_Witness ==
    /\ Returned("jobs_run_not_completed")
    /\ \E j \in DOMAIN jobs : visited[j] = "COMPLETED" /\ submitted[j] = 0
    /\ \E j \in DOMAIN jobs : visited[j] # "COMPLETED" /\ submitted[j] = 1

(* C9: after xydata_clean_all_xydata returns the session holds no xyData   *)
(* object, and after xyplots_clean_all_xyplots returns it holds no xyPlot  *)
(* object, whatever it held before.                                        *)
C9_SessionCleaned ==
    /\ smacro = "xydata_clean_all_xydata" => xyDataObjects = {}
    /\ smacro = "xyplots_clean_all_xyplots" => xyPlots = {}

(* C10: after models_replace_blank_spaces returns no model name contains a *)
(* blank, every model that existed before is present under its former name *)
(* with each blank replaced by an underscore, and the number of models is  *)
(* unchanged.                                                              *)
C10_AllBlanksReplaced ==
    Returned("models_replace_blank_spaces") =>
        /\ \A m \in models : ~HasBlank(m)
        /\ models = { Replace(m) : m \in pre.models }
        /\ Cardinality(models) = Cardinality(pre.models)

(***************************************************************************)
(* C11: once build_parametric_csv has been executed for a non-empty        *)
(* parameters_list, of one parameter or of several, the study csv has the  *)
(* MODEL_NO column followed by one column per parameter, each named after  *)
(* its parameter.                                                          *)
(***************************************************************************)
CsvBuilt ==
    /\ LastTop = "create_parametric_files"
    /\ ppc # "cpf_csv"

C11_ColumnPerParameter ==
    CsvBuilt =>
        /\ Len(csv) = arg.parameters + 1
        /\ csv[1] = "MODEL_NO"
        /\ \A i \in 1..arg.parameters :
              csv[i + 1] = ParametersList(arg.parameters)[i]

(***************************************************************************)
(* C12: the psf written by modify_psf_4_run is made of the os.chdir line   *)
(* of the input psf (only when an analysis folder is given), the           *)
(* 'parameters = ' line, the 'study = ' line and, as last line,            *)
(* study.execute(ALL, execOptions = "cpus=N") with N equal to cpu_numbers, *)
(* in this order and nothing else; no line of it is a study.generate line. *)
(***************************************************************************)
PsfRewritten ==
    /\ LastTop = "create_parametric_files"
    /\ "psf_run" \in Range(steps)

RunPsfExpected ==
    (IF arg.folder = "cfg"
     THEN << <<"os.chdir", "(\"", ANALYSIS_FOLDER, "/", STUDY_NAME, "/",
               "\")">> >>
     ELSE <<>>)
    \o << <<"parameters", " = ">> \o StrOfList(ParametersList(arg.parameters)),
          <<"study", " = ", "ParStudy(par=(", "parameters", "))">>,
          <<"study", ".execute", "(ALL, execOptions", " = ", "\"cpus=",
            ToString(CpuNumbers(arg)), "\")">> >>

C12_RunPsfLines ==
    PsfRewritten =>
        LET written == psf_text[IF arg.folder = "cfg" THEN "analysis"
                                ELSE "study"]
        IN /\ written = JoinLines(RunPsfExpected)
           /\ \A i \in DOMAIN ReadLines(written) :
                 ~Contains(ReadLines(written)[i], <<"study", ".generate">>)

C12_Witness ==
    /\ PsfRewritten
    /\ arg.folder = "cfg"
    /\ arg.cpu_numbers > arg.max_cpu_no
    /\ Len(ReadLines(psf_text.analysis)) = 4
    /\ PsfKind(psf_text.study) = "generate"

(***************************************************************************)
(* C13: the command run_psf starts is 'abaqus script=' followed by the     *)
(* path it was given when that path has suffix .psf, and by                *)
(* <analysis_folder>/<cfg stem>/<cfg stem>.psf, with analysis_folder read  *)
(* from the config file, when it was given a .cfg file.                    *)
(***************************************************************************)
NameOf(path) == path[Len(path)]

IsCfg(path) == NameOf(path)[Len(NameOf(path))] = ".cfg"

CfgStem(path) == SubSeq(NameOf(path), 1, Len(NameOf(path)) - 1)

ClaimedPsf(path) ==
    IF IsCfg(path)
    THEN (IF arg.folder = "cfg" THEN <<ANALYSIS_FOLDER, "/">> ELSE <<>>)
         \o CfgStem(path) \o <<"/">> \o CfgStem(path) \o <<".psf">>
    ELSE Str(path)

C13_RunsThePsf ==
    \A p \in StartedBy(calls) :
        procs[p].cmd[1] = "abaqus script="
            => procs[p].cmd = <<"abaqus script=">> \o ClaimedPsf(arg.input)

(***************************************************************************)
(* C14: when the main script has ended, the stage calls it made are those  *)
(* whose flag is set for their study, each made once, the studies one      *)
(* after the other and, within a study, in the order create parametric     *)
(* files, run parametric analysis, extract FEA output, summarize output,   *)
(* post-process; no stage of a later study comes before a stage of an      *)
(* earlier one.                                                            *)
(***************************************************************************)
StageOrder ==
    <<"create_parametric_files", "run_parametric_analysis",
      "extract_fea_output", "summarize_output", "post_process">>

StageNo(stage) == CHOOSE k \in DOMAIN StageOrder : StageOrder[k] = stage

C14_StagesInOrder ==
    script = "ended" =>
        /\ \A n \in DOMAIN CONFIG_PROJECTS.study_names :
              \A k \in DOMAIN StageOrder :
                  CONFIG_PROJECTS[StageOrder[k]][n]
                      <=> \E i \in DOMAIN stages_run :
                              stages_run[i] = [study |-> n,
                                               stage |-> StageOrder[k]]
        /\ \A i, j \in DOMAIN stages_run :
              i < j =>
                  \/ stages_run[i].study < stages_run[j].study
                  \/ /\ stages_run[i].study = stages_run[j].study
                     /\ StageNo(stages_run[i].stage)
                            < StageNo(stages_run[j].stage)

====
